---------------------------- MODULE Spec2Model ----------------------------
(***************************************************************************)
(* vindicator: late fusion of search result lists (src/src/fuser.rs), the  *)
(* result-entry abstraction (src/src/lib.rs), the TREC text codec         *)
(* (src/src/trec.rs) and the merge command (src/src/main.rs).              *)
(*                                                                         *)
(* Every operation of the library is a pure, single-threaded function, so  *)
(* each one is an action that draws its arguments from bounded sets,       *)
(* applies the function as the code computes it and records the arguments  *)
(* and the returned value.                                                 *)
(*                                                                         *)
(* Score is noisy_float's N32: an f32 that must not be NaN.  A finite      *)
(* score is modelled as an integer count of quarters (Unit = 4 is 1.0), a  *)
(* range in which f32 arithmetic on the values used here is exact; the     *)
(* two infinities and NaN are modelled as such.  N32 checks its invariant  *)
(* with debug_assert: a debug build panics where a NaN would be stored,    *)
(* a release build stores it.  Both builds are modelled (variable build).  *)
(***************************************************************************)
EXTENDS Integers, Sequences, FiniteSets, TLC

VARIABLES
    build,      \* "debug" or "release": whether N32's checks are compiled in
    op,         \* the call that has completed ("start" before any)
    results,    \* fuse_*: the entries passed in (results1 for fuse_scored_lists);
                \* merge: the entries of the files, passed to fuse_scored
    results2,   \* fuse_scored_lists: the second list
    fuser,      \* the name of the combination function passed in
    calls,      \* fuse_*: the slices the combination function was applied to
    flat,       \* fuse_*: the returned Vec<EntryInfo>
    panicked,   \* the call unwound with a panic instead of returning
    scores,     \* comb_*/rrf: the slice passed in
    combined,   \* comb_*/rrf: the returned Score
    file_data,  \* parse_from_trec: the text passed in; write_all: the text written
    rows,       \* parse_from_trec: the tokens of each line the text was laid out from
    list,       \* write_all: the entries passed in (merge: the fused list)
    parsed,     \* parse_from_trec: the returned Result
    fuser_arg,  \* merge: the algorithm name given with -f
    files_data, \* merge: the input files in argument order, as read
    exit        \* merge: how the process ended

vars == <<build, op, results, results2, fuser, calls, flat, panicked,
          scores, combined, file_data, rows, list, parsed,
          fuser_arg, files_data, exit>>

-----------------------------------------------------------------------------
(* Bounds of the model *)

\* longest list of entries passed to a fuse_* call
MaxEntries == 3
\* longest of the two lists passed to fuse_scored_lists
MaxListLen == 2
\* longest slice passed directly to a combination function
MaxScores == 4
\* most lines of a text passed to parse_from_trec
MaxLines == 2
\* longest list of entries passed to write_all
MaxRecords == 2
\* input files of one merge command
MaxFiles == 3

-----------------------------------------------------------------------------
(* Score = N32 (src/src/lib.rs:44) *)

\* one quarter is the model's unit of a finite score: Fin(Unit) is 1.0
Unit == 4

Fin(k) == [kind |-> "fin", v |-> k]
Inf == [kind |-> "inf", v |-> 1]
NegInf == [kind |-> "inf", v |-> -1]
NaN == [kind |-> "nan", v |-> 0]
\* not a value: the marker of a panic raised while a score was computed
Panic == [kind |-> "panic", v |-> 0]

Builds == {"debug", "release"}

\* NoisyFloat::new: debug_assert!(C::check(value)), NumChecker rejects NaN
New(x) ==
    IF x.kind = "nan" /\ build = "debug" THEN Panic ELSE x

\* n32(0.) and n32(1.)
Zero == Fin(0)
One == Fin(Unit)

Sign(x) == IF x.v > 0 THEN 1 ELSE IF x.v < 0 THEN -1 ELSE 0

\* f32 addition
RawAdd(a, b) ==
    CASE a.kind = "panic" \/ b.kind = "panic" -> Panic
      [] a.kind = "nan" \/ b.kind = "nan" -> NaN
      [] a.kind = "inf" /\ b.kind = "inf" -> IF a.v = b.v THEN a ELSE NaN
      [] a.kind = "inf" -> a
      [] b.kind = "inf" -> b
      [] OTHER -> Fin(a.v + b.v)

\* f32 multiplication (exact when one factor is a whole number)
RawMul(a, b) ==
    CASE a.kind = "panic" \/ b.kind = "panic" -> Panic
      [] a.kind = "nan" \/ b.kind = "nan" -> NaN
      [] a.kind = "inf" \/ b.kind = "inf" ->
            IF Sign(a) * Sign(b) = 0 THEN NaN
            ELSE IF Sign(a) * Sign(b) > 0 THEN Inf ELSE NegInf
      [] OTHER -> Fin((a.v * b.v) \div Unit)

\* f32 negation
RawNeg(a) ==
    CASE a.kind = "fin" -> Fin(-a.v)
      [] a.kind = "inf" -> [kind |-> "inf", v |-> -a.v]
      [] OTHER -> a

\* f32 `<` and `==`: false whenever an operand is NaN
RawLt(a, b) ==
    CASE a.kind = "nan" \/ b.kind = "nan" -> FALSE
      [] a.kind = "inf" /\ b.kind = "inf" -> a.v < b.v
      [] a.kind = "inf" -> a.v < 0
      [] b.kind = "inf" -> b.v > 0
      [] OTHER -> a.v < b.v

RawEq(a, b) ==
    a.kind # "nan" /\ b.kind # "nan" /\ a = b

\* the operators of N32: the f32 operation, then NoisyFloat::new
ScoreAdd(a, b) == New(RawAdd(a, b))
ScoreMul(a, b) == New(RawMul(a, b))
ScoreNeg(a) == New(RawNeg(a))

\* Ord for N32: Less if a < b, Equal if a == b, and Greater otherwise
Cmp(a, b) ==
    IF RawLt(a, b) THEN "Less" ELSE IF RawEq(a, b) THEN "Equal" ELSE "Greater"


-----------------------------------------------------------------------------
(* Combination functions (src/src/fuser.rs:9-33) *)

RECURSIVE MaxFold(_, _, _)
\* Iterator::max: keeps the later of two elements unless the earlier is Greater
MaxFold(acc, s, i) ==
    IF i > Len(s) THEN acc
    ELSE MaxFold(IF Cmp(acc, s[i]) = "Greater" THEN acc ELSE s[i], s, i + 1)

RECURSIVE RawSum(_, _, _)
\* Iterator::sum over the raw f32 values, left to right from 0.0
RawSum(acc, s, i) ==
    IF i > Len(s) THEN acc ELSE RawSum(RawAdd(acc, s[i]), s, i + 1)

\* a mutant of comb_max: the first score instead of the highest
comb_max_first(s) ==
    IF s = <<>> THEN Zero ELSE s[1]

\* scores.into_iter().cloned().max().unwrap_or(n32(0.))
comb_max(s) ==
    IF s = <<>> THEN Zero ELSE MaxFold(s[1], s, 2)

\* a mutant of comb_sum: the first score is left out of the sum
comb_sum_skip_first(s) ==
    New(RawSum(Zero, s, 2))

\* scores.into_iter().cloned().sum::<Score>()
comb_sum(s) ==
    New(RawSum(Zero, s, 1))

\* n32(scores.len() as f32) * comb_sum(scores)
comb_mnz(s) ==
    ScoreMul(New(Fin(Len(s) * Unit)), comb_sum(s))

\* score(1. / (1. + r as f32)); exact for the ranks 0, 1 and 3
Reciprocal(r) ==
    New(Fin(Unit \div (1 + r)))

\* ranks.into_iter().map(|&r| 1. / (1. + r as f32)).map(score).sum()
rrf(ranks) ==
    New(RawSum(Zero, [i \in 1..Len(ranks) |-> Reciprocal(ranks[i])], 1))

-----------------------------------------------------------------------------
(* Result entries (src/src/lib.rs:57-225) *)

\* SearchEntry::id, SearchEntry::score and RankedSearchEntry::rank of
\* RankedEntryInfo
id(r) == r.id
score(r) == r.score
rank(r) == r.rank

\* a mutant of to_entry: the trait's default score n32(1.) instead of the
\* entry's own
to_entry_default_score(r) ==
    [id |-> id(r), score |-> One]

\* SearchEntry::to_entry: EntryInfo { id: self.id().clone(), score: self.score() }
to_entry(r) ==
    [id |-> id(r), score |-> score(r)]

-----------------------------------------------------------------------------
(* Fusion engine (src/src/fuser.rs:35-151) *)

RECURSIVE GroupLoop(_, _, _, _)
\* for r in results: push onto the id's vector, or insert a new one-element
\* vector when the map has no such id.  keys[i] is r.id() of the i-th entry
\* and vals[i] the value collected from it.
GroupLoop(map, keys, vals, i) ==
    IF i > Len(keys) THEN map
    ELSE IF keys[i] \in DOMAIN map
         THEN GroupLoop([map EXCEPT ![keys[i]] = Append(@, vals[i])],
                        keys, vals, i + 1)
         ELSE GroupLoop(map @@ (keys[i] :> <<vals[i]>>), keys, vals, i + 1)

EmptyMap == [k \in {} |-> <<>>]

Keys(rs) == [i \in 1..Len(rs) |-> id(rs[i])]

\* a mutant of the grouping: an id's later contributions replace the earlier
GroupScoresLastOnly(rs) ==
    [k \in {id(rs[i]) : i \in 1..Len(rs)} |->
        <<score(rs[CHOOSE i \in 1..Len(rs) :
                    /\ id(rs[i]) = k
                    /\ \A j \in 1..Len(rs) : id(rs[j]) = k => j <= i])>>]

\* fuse_scored's map: id -> the scores of its entries
GroupScores(rs) ==
    GroupLoop(EmptyMap, Keys(rs), [i \in 1..Len(rs) |-> score(rs[i])], 1)

\* fuse_ranked's map: id -> the ranks of its entries
GroupRanks(rs) ==
    GroupLoop(EmptyMap, Keys(rs), [i \in 1..Len(rs) |-> rank(rs[i])], 1)

\* fuse_hybrid's map: id -> the (rank, score) pairs of its entries
GroupPairs(rs) ==
    GroupLoop(EmptyMap, Keys(rs),
              [i \in 1..Len(rs) |-> <<rank(rs[i]), score(rs[i])>>], 1)

\* HashMap::into_iter: the keys in an arbitrary order, each once
IterOrders(map) ==
    {o \in [1..Cardinality(DOMAIN map) -> DOMAIN map] :
        \A i, j \in DOMAIN o : i # j => o[i] # o[j]}

\* a mutant of the sort key: the score itself, which sorts ascending
SortKeyAscending(e) ==
    e.score

\* the key of flat.sort_unstable_by_key(|e| -e.score)
SortKey(e) ==
    ScoreNeg(e.score)

\* a slice is sorted by key when no element is Greater than a later one
SortedByKey(s) ==
    \A i, j \in 1..Len(s) : i < j => Cmp(SortKey(s[i]), SortKey(s[j])) # "Greater"

\* the rearrangements of a slice
Orderings(t) ==
    {[i \in 1..Len(t) |-> t[p[i]]] :
        p \in {q \in [1..Len(t) -> 1..Len(t)] :
                 \A i, j \in 1..Len(t) : i # j => q[i] # q[j]}}

\* the key order is total unless a key is NaN (N32's Ord then answers Greater
\* both ways round)
TotalKeys(s) ==
    \A i \in 1..Len(s) : SortKey(s[i]).kind # "nan"

\* sort_unstable_by_key: the sorted permutations of the slice; equal keys in
\* any order.  When the keys are not totally ordered the resulting order is
\* unspecified (any permutation), and the sort may panic instead.
SortOutcomes(s) ==
    IF TotalKeys(s)
    THEN {[panic |-> FALSE, vec |-> t] : t \in {u \in Orderings(s) : SortedByKey(u)}}
    ELSE {[panic |-> FALSE, vec |-> t] : t \in Orderings(s)}
         \cup {[panic |-> TRUE, vec |-> <<>>]}

\* a mutant of the collection: the last group is left out
CollectDropsLast(order, fused) ==
    [i \in 1..(Len(order) - 1) |-> [id |-> order[i], score |-> fused[order[i]]]]

\* the collected Vec before sorting, for one iteration order of the map;
\* fused[k] is the combination function's result for the group of k
Collect(order, fused) ==
    [i \in 1..Len(order) |-> [id |-> order[i], score |-> fused[order[i]]]]

\* one iteration order of the map: the combination function is applied to
\* the groups in that order.  If an application panics the call unwinds there;
\* otherwise the collected Vec is sorted and returned (or the sort panics).
\* calls are the slices the function was applied to.
FuseInOrder(map, fused, o) ==
    IF \E i \in 1..Len(o) : fused[o[i]].kind = "panic"
    THEN LET first == CHOOSE i \in 1..Len(o) :
                          /\ fused[o[i]].kind = "panic"
                          /\ \A j \in 1..(i - 1) : fused[o[j]].kind # "panic"
         IN  {[panic |-> TRUE, vec |-> <<>>, calls |-> {map[o[j]] : j \in 1..first}]}
    ELSE {[panic |-> out.panic, vec |-> out.vec, calls |-> {map[k] : k \in DOMAIN map}] :
            out \in SortOutcomes(Collect(o, fused))}

\* every outcome of collecting and sorting, over the iteration orders of the
\* map; fused[k] is the combination function's result for the group of k
FuseOutcomes(map, fused) ==
    UNION {FuseInOrder(map, fused, o) : o \in IterOrders(map)}


\* the combination functions a caller passes to fuse_scored: the library's
\* three, and a closure returning the first score of its slice (which, unlike
\* the library's, depends on the order of the slice)
ScoreFusers == {"comb_max", "comb_sum", "comb_mnz", "first"}

ApplyScoreFuser(f, s) ==
    CASE f = "comb_max" -> comb_max(s)
      [] f = "comb_sum" -> comb_sum(s)
      [] f = "comb_mnz" -> comb_mnz(s)
      [] f = "first" -> s[1]

\* the combination functions passed to fuse_ranked: the library's rrf, and a
\* closure returning minus the last rank of its slice
RankFusers == {"rrf", "neg_last"}

ApplyRankFuser(f, s) ==
    CASE f = "rrf" -> rrf(s)
      [] f = "neg_last" -> New(Fin(-(s[Len(s)] * Unit)))

\* the combination functions passed to fuse_hybrid (the library has none):
\* closures returning the sum of score * 1/(1 + rank), and the score of the
\* first pair minus the rank of the last
PairFusers == {"weighted", "first_minus_last"}

ApplyPairFuser(f, s) ==
    CASE f = "weighted" ->
            New(RawSum(Zero,
                       [i \in 1..Len(s) |-> RawMul(Reciprocal(s[i][1]), s[i][2])], 1))
      [] f = "first_minus_last" ->
            ScoreAdd(s[1][2], Fin(-(s[Len(s)][1] * Unit)))

\* fuser(&scores) for every group of the map
FuseGroups(map, f, Apply(_, _)) ==
    [k \in DOMAIN map |-> Apply(f, map[k])]

\* fuse_scored(results, fuser): every Vec (or panic) the call can produce
fuse_scored(rs, f) ==
    FuseOutcomes(GroupScores(rs), FuseGroups(GroupScores(rs), f, ApplyScoreFuser))

\* fuse_ranked(results, fuser)
fuse_ranked(rs, f) ==
    FuseOutcomes(GroupRanks(rs), FuseGroups(GroupRanks(rs), f, ApplyRankFuser))

\* fuse_hybrid(results, fuser)
fuse_hybrid(rs, f) ==
    FuseOutcomes(GroupPairs(rs), FuseGroups(GroupPairs(rs), f, ApplyPairFuser))

\* Iterator::chain(results1, results2)
Chain(a, b) ==
    a \o b

\* results.into_iter().map(|x| x.to_entry())
ToEntries(rs) ==
    [i \in 1..Len(rs) |-> to_entry(rs[i])]

\* fuse_scored_lists(results1, results2, fuser)
fuse_scored_lists(rs1, rs2, f) ==
    fuse_scored(Chain(ToEntries(rs1), ToEntries(rs2)), f)

-----------------------------------------------------------------------------
(* Arguments of the fuse_* calls *)

Ids == {"dA", "dB", "dC"}

\* the scores of the entries passed in: non-NaN, as a Score is
EntryScores == {NegInf, Fin(-Unit), Fin(Unit), Inf}

\* the ranks of the entries passed in
EntryRanks == {0, 1, 3}

SeqsUpTo(S, n) == UNION {[1..k -> S] : k \in 0..n}

\* EntryInfo values with every score: the id and the score are what
\* fuse_scored reads
ScoredEntries == [id : Ids, score : EntryScores]

\* RankedEntryInfo values: id, score and rank
RankedEntries == [id : {"dA", "dB"}, score : {Fin(-2), Fin(Unit)}, rank : EntryRanks]

\* RankedEntryInfo values with infinite scores too
ListEntries ==
    {[id |-> "dA", score |-> x, rank |-> 0] : x \in {NegInf, Fin(Unit), Inf}}
    \cup {[id |-> "dB", score |-> Fin(Unit), rank |-> 3]}

-----------------------------------------------------------------------------
(* TREC codec (src/src/trec.rs).  A text is a sequence of characters. *)

\* char::is_whitespace, for the characters of a line
IsWhitespace(c) == c \in {" ", "\t", "\r"}

RECURSIVE Lines(_)
\* str::lines: the text split at every "\n"; a final line needs no "\n", and
\* the empty rest after the last "\n" is no line
Lines(text) ==
    IF text = <<>> THEN <<>>
    ELSE IF \E i \in 1..Len(text) : text[i] = "\n"
         THEN LET nl == CHOOSE i \in 1..Len(text) :
                            /\ text[i] = "\n"
                            /\ \A j \in 1..(i - 1) : text[j] # "\n"
                  line == SubSeq(text, 1, nl - 1)
                  \* a "\r" before the "\n" belongs to the line ending
                  bare == IF line # <<>> /\ line[Len(line)] = "\r"
                          THEN SubSeq(line, 1, Len(line) - 1) ELSE line
              IN  <<bare>> \o Lines(SubSeq(text, nl + 1, Len(text)))
         ELSE <<text>>

RECURSIVE split_whitespace(_)
\* str::split_whitespace: the maximal runs of non-whitespace characters
split_whitespace(l) ==
    IF l = <<>> THEN <<>>
    ELSE IF IsWhitespace(l[1]) THEN split_whitespace(Tail(l))
    ELSE LET stop == IF \E i \in 1..Len(l) : IsWhitespace(l[i])
                     THEN CHOOSE i \in 1..Len(l) :
                              /\ IsWhitespace(l[i])
                              /\ \A j \in 1..(i - 1) : ~IsWhitespace(l[j])
                     ELSE Len(l) + 1
         IN  <<SubSeq(l, 1, stop - 1)>> \o split_whitespace(SubSeq(l, stop, Len(l)))

DigitChars == <<"0", "1", "2", "3", "4", "5", "6", "7", "8", "9">>

IsDigit(c) == \E d \in 1..Len(DigitChars) : DigitChars[d] = c

DigitValue(c) == (CHOOSE d \in 1..Len(DigitChars) : DigitChars[d] = c) - 1

AllDigits(t) == \A i \in 1..Len(t) : IsDigit(t[i])

RECURSIVE DigitsValue(_)
\* the number a string of decimal digits denotes (0 for the empty string)
DigitsValue(t) ==
    IF t = <<>> THEN 0
    ELSE DigitsValue(SubSeq(t, 1, Len(t) - 1)) * 10 + DigitValue(t[Len(t)])

RECURSIVE Pow10(_)
Pow10(n) == IF n = 0 THEN 1 ELSE 10 * Pow10(n - 1)

\* <u32 as FromStr>::from_str: an optional "+", then one or more digits.  The
\* rank tokens of the model are short, so the value never exceeds u32::MAX.
ParseU32(t) ==
    LET digits == IF t # <<>> /\ t[1] = "+" THEN Tail(t) ELSE t
    IN  IF digits # <<>> /\ AllDigits(digits)
        THEN [ok |-> TRUE, value |-> DigitsValue(digits)]
        ELSE [ok |-> FALSE, value |-> 0]

\* to_ascii_lowercase, for the letters of "inf", "infinity" and "nan"
Lower(c) ==
    CASE c = "I" -> "i" [] c = "N" -> "n" [] c = "F" -> "f" [] c = "A" -> "a"
      [] c = "T" -> "t" [] c = "Y" -> "y" [] OTHER -> c

IndexOf(t, chars) ==
    IF \E i \in 1..Len(t) : t[i] \in chars
    THEN CHOOSE i \in 1..Len(t) : t[i] \in chars /\ \A j \in 1..(i - 1) : t[j] \notin chars
    ELSE 0

\* <f32 as FromStr>::from_str: an optional sign, then "inf", "infinity" or
\* "nan" in any case, or a decimal number: digits with an optional "."
\* (at least one digit in all) and an optional exponent.  The value is
\* returned in quarters, which is exact for the score tokens of the model.
ParseF32(t) ==
    LET signed == t # <<>> /\ t[1] \in {"+", "-"}
        negative == signed /\ t[1] = "-"
        body == IF signed THEN Tail(t) ELSE t
        word == [i \in 1..Len(body) |-> Lower(body[i])]
        e == IndexOf(body, {"e", "E"})
        mantissa == IF e = 0 THEN body ELSE SubSeq(body, 1, e - 1)
        exponent == IF e = 0 THEN <<>> ELSE SubSeq(body, e + 1, Len(body))
        expSigned == exponent # <<>> /\ exponent[1] \in {"+", "-"}
        expDigits == IF expSigned THEN Tail(exponent) ELSE exponent
        expValue == IF expSigned /\ exponent[1] = "-"
                    THEN -DigitsValue(expDigits) ELSE DigitsValue(expDigits)
        dot == IndexOf(mantissa, {"."})
        whole == IF dot = 0 THEN mantissa ELSE SubSeq(mantissa, 1, dot - 1)
        frac == IF dot = 0 THEN <<>> ELSE SubSeq(mantissa, dot + 1, Len(mantissa))
        isNumber == /\ AllDigits(whole) /\ AllDigits(frac)
                    /\ Len(whole) + Len(frac) > 0
                    /\ (e # 0 => expDigits # <<>> /\ AllDigits(expDigits))
        scale == expValue - Len(frac)
        digits == DigitsValue(whole \o frac) * Unit
        quarters == IF scale >= 0 THEN digits * Pow10(scale)
                    ELSE digits \div Pow10(-scale)
    IN  CASE word = <<"i", "n", "f">>
               \/ word = <<"i", "n", "f", "i", "n", "i", "t", "y">> ->
                 [ok |-> TRUE, value |-> IF negative THEN NegInf ELSE Inf]
          [] word = <<"n", "a", "n">> -> [ok |-> TRUE, value |-> NaN]
          [] isNumber ->
                 [ok |-> TRUE, value |-> Fin(IF negative THEN -quarters ELSE quarters)]
          [] OTHER -> [ok |-> FALSE, value |-> NaN]

\* a mutant of try_new: the NaN check is left out
try_new_unchecked(x) ==
    [some |-> TRUE, value |-> x]

\* Score::try_new: None for NaN, in every build
try_new(x) ==
    IF x.kind = "nan" THEN [some |-> FALSE, value |-> x] ELSE [some |-> TRUE, value |-> x]

\* Result<Vec<TrecEntry>, ParseError>
Ok(es) == [ok |-> TRUE, entries |-> es, err |-> [kind |-> "none", field |-> "", text |-> <<>>]]
Err(e) == [ok |-> FALSE, entries |-> <<>>, err |-> e]

\* ParseError::Eol(field), ParseError::InvalidRank(text) and
\* ParseError::InvalidScore(text)
Eol(f) == [kind |-> "Eol", field |-> f, text |-> <<>>]
InvalidRank(t) == [kind |-> "InvalidRank", field |-> "", text |-> t]
InvalidScore(t) == [kind |-> "InvalidScore", field |-> "", text |-> t]

\* a mutant of the line parser: no reserved field is read, the document
\* number is the second token (as in the parser of src/src/parse.rs)
ParseLineNoReserved(l) ==
    LET words == split_whitespace(l)
        idx == ParseU32(words[3])
        num == ParseF32(words[4])
        sc == try_new(num.value)
    IN  IF Len(words) < 1 THEN Err(Eol("qid"))
        ELSE IF Len(words) < 2 THEN Err(Eol("docno"))
        ELSE IF Len(words) < 3 THEN Err(Eol("rank"))
        ELSE IF ~idx.ok THEN Err(InvalidRank(words[3]))
        ELSE IF Len(words) < 4 THEN Err(Eol("score"))
        ELSE IF ~num.ok \/ ~sc.some THEN Err(InvalidScore(words[4]))
        ELSE IF Len(words) < 5 THEN Err(Eol("runid"))
        ELSE Ok(<<[qid |-> words[1], docno |-> words[2], rank |-> idx.value,
                   score |-> sc.value, runid |-> words[5]]>>)

\* a mutant of the attribute names: those of src/src/parse.rs, which has no
\* "reserved"
FieldNameWithoutReserved(n) ==
    <<"qid", "docno", "rank", "score", "runid", "runid">>[n]

\* the attribute ParseError::Eol names when the n-th token is missing
FieldName(n) ==
    <<"qid", "reserved", "docno", "rank", "score", "runid">>[n]

\* the closure parse_from_trec maps over the lines: the six fields are read
\* in turn, and the first that is missing or invalid ends the line with its
\* error
ParseLine(l) ==
    LET words == split_whitespace(l)
        idx == ParseU32(words[4])
        num == ParseF32(words[5])
        sc == try_new(num.value)
    IN  IF Len(words) < 1 THEN Err(Eol(FieldName(1)))
        ELSE IF Len(words) < 2 THEN Err(Eol(FieldName(2)))
        ELSE IF Len(words) < 3 THEN Err(Eol(FieldName(3)))
        ELSE IF Len(words) < 4 THEN Err(Eol(FieldName(4)))
        ELSE IF ~idx.ok THEN Err(InvalidRank(words[4]))
        ELSE IF Len(words) < 5 THEN Err(Eol(FieldName(5)))
        ELSE IF ~num.ok \/ ~sc.some THEN Err(InvalidScore(words[5]))
        ELSE IF Len(words) < 6 THEN Err(Eol(FieldName(6)))
        ELSE Ok(<<[qid |-> words[1], docno |-> words[3], rank |-> idx.value,
                   score |-> sc.value, runid |-> words[6]]>>)

RECURSIVE CollectResultsSkippingErrors(_, _, _)
\* a mutant of CollectResults: the lines that fail are left out
CollectResultsSkippingErrors(ls, i, acc) ==
    IF i > Len(ls) THEN Ok(acc)
    ELSE LET r == ParseLine(ls[i])
         IN  CollectResultsSkippingErrors(ls, i + 1,
                 IF r.ok THEN acc \o r.entries ELSE acc)

RECURSIVE CollectResults(_, _, _)
\* collect::<Result<Vec<_>, _>>(): the lines are parsed in order; the first
\* Err ends the iteration and is returned, the entries read so far dropped
CollectResults(ls, i, acc) ==
    IF i > Len(ls) THEN Ok(acc)
    ELSE LET r == ParseLine(ls[i])
         IN  IF r.ok THEN CollectResults(ls, i + 1, acc \o r.entries) ELSE r

\* parse_from_trec(file_data)
parse_from_trec(text) ==
    CollectResults(Lines(text), 1, <<>>)

RECURSIVE FmtDigits(_)
\* Display for u32
FmtDigits(n) ==
    IF n < 10 THEN <<DigitChars[n + 1]>>
    ELSE FmtDigits(n \div 10) \o <<DigitChars[(n % 10) + 1]>>

\* Display for N32, which is that of f32: the shortest decimal that parses
\* back to the value, without exponent; "inf", "-inf" and "NaN"
FmtScore(x) ==
    LET a == IF x.v < 0 THEN -x.v ELSE x.v
        fraction == CASE a % Unit = 0 -> <<>>
                      [] a % Unit = 1 -> <<".", "2", "5">>
                      [] a % Unit = 2 -> <<".", "5">>
                      [] a % Unit = 3 -> <<".", "7", "5">>
    IN  CASE x.kind = "nan" -> <<"N", "a", "N">>
          [] x.kind = "inf" -> IF x.v < 0 THEN <<"-", "i", "n", "f">> ELSE <<"i", "n", "f">>
          [] OTHER -> (IF x.v < 0 THEN <<"-">> ELSE <<>>) \o FmtDigits(a \div Unit) \o fraction

\* a mutant of write: the reserved "0" is left out
write_without_reserved(entry) ==
    entry.qid \o <<" ">> \o entry.docno \o <<" ">> \o FmtDigits(entry.rank)
        \o <<" ">> \o FmtScore(entry.score) \o <<" ">> \o entry.runid \o <<"\n">>

\* write: writeln!(writer, "{} 0 {} {} {} {}", qid, docno, rank, score, runid)
write(entry) ==
    entry.qid \o <<" ", "0", " ">> \o entry.docno \o <<" ">> \o FmtDigits(entry.rank)
        \o <<" ">> \o FmtScore(entry.score) \o <<" ">> \o entry.runid \o <<"\n">>

RECURSIVE write_all(_)
\* write_all: for e in list { write(&mut writer, e)?; }
write_all(es) ==
    IF es = <<>> THEN <<>> ELSE write(Head(es)) \o write_all(Tail(es))

-----------------------------------------------------------------------------
(* The calls *)

NoFuse ==
    /\ results = <<>> /\ results2 = <<>> /\ fuser = "none"
    /\ calls = {} /\ flat = <<>> /\ panicked = FALSE

NoComb == scores = <<>> /\ combined = Zero

NoTrec == file_data = <<>> /\ rows = <<>> /\ list = <<>> /\ parsed = Ok(<<>>)

NoMerge == fuser_arg = "" /\ files_data = <<>> /\ exit = "running"

Init ==
    /\ build \in Builds
    /\ op = "start"
    /\ NoFuse /\ NoComb /\ NoTrec /\ NoMerge

Returned(out) ==
    /\ panicked' = out.panic
    /\ flat' = out.vec
    /\ calls' = out.calls

FuseScored ==
    /\ op = "start"
    /\ \E rs \in SeqsUpTo(ScoredEntries, MaxEntries), f \in ScoreFusers :
          /\ results' = rs /\ fuser' = f
          /\ \E out \in fuse_scored(rs, f) : Returned(out)
    /\ op' = "fuse_scored"
    /\ UNCHANGED <<build, fuser_arg, files_data, exit, results2, scores, combined, file_data, rows, list, parsed>>

FuseRanked ==
    /\ op = "start"
    /\ \E rs \in SeqsUpTo(RankedEntries, MaxEntries), f \in RankFusers :
          /\ results' = rs /\ fuser' = f
          /\ \E out \in fuse_ranked(rs, f) : Returned(out)
    /\ op' = "fuse_ranked"
    /\ UNCHANGED <<build, fuser_arg, files_data, exit, results2, scores, combined, file_data, rows, list, parsed>>

FuseHybrid ==
    /\ op = "start"
    /\ \E rs \in SeqsUpTo(RankedEntries, MaxEntries), f \in PairFusers :
          /\ results' = rs /\ fuser' = f
          /\ \E out \in fuse_hybrid(rs, f) : Returned(out)
    /\ op' = "fuse_hybrid"
    /\ UNCHANGED <<build, fuser_arg, files_data, exit, results2, scores, combined, file_data, rows, list, parsed>>

FuseScoredLists ==
    /\ op = "start"
    /\ \E rs1 \in SeqsUpTo(ListEntries, MaxListLen),
          rs2 \in SeqsUpTo(ListEntries, MaxListLen), f \in ScoreFusers :
          /\ results' = rs1 /\ results2' = rs2 /\ fuser' = f
          /\ \E out \in fuse_scored_lists(rs1, rs2, f) : Returned(out)
    /\ op' = "fuse_scored_lists"
    /\ UNCHANGED <<build, fuser_arg, files_data, exit, scores, combined, file_data, rows, list, parsed>>

NextFuse == FuseScored \/ FuseRanked \/ FuseHybrid \/ FuseScoredLists

SpecFuse == Init /\ [][NextFuse]_vars


-----------------------------------------------------------------------------
(* Properties of the fusion engine *)

FuseOps == {"fuse_scored", "fuse_ranked", "fuse_hybrid", "fuse_scored_lists"}

\* the entries a fuse_* call was given, in the order it reads them
InputOf == IF op = "fuse_scored_lists" THEN results \o results2 ELSE results

InputIds == {InputOf[i].id : i \in 1..Len(InputOf)}

\* what the call collects from an entry: its score, its rank, or both
ContributionOf(e) ==
    CASE op = "fuse_ranked" -> e.rank
      [] op = "fuse_hybrid" -> <<e.rank, e.score>>
      [] OTHER -> e.score

\* the contributions of the input entries carrying id k, in input order
Contributions(k) ==
    LET mine == SelectSeq(InputOf, LAMBDA e : e.id = k)
    IN  [i \in 1..Len(mine) |-> ContributionOf(mine[i])]

\* the combination function the call was given, applied to a slice
ApplyFuser(s) ==
    CASE op = "fuse_ranked" -> ApplyRankFuser(fuser, s)
      [] op = "fuse_hybrid" -> ApplyPairFuser(fuser, s)
      [] OTHER -> ApplyScoreFuser(fuser, s)

\* f32 `>=`: false whenever an operand is NaN
RawGe(a, b) == RawLt(b, a) \/ RawEq(a, b)

RECURSIVE SumOf(_)
\* the sum of a sequence of scores, from its last element backwards
SumOf(s) == IF s = <<>> THEN Zero ELSE RawAdd(Head(s), SumOf(Tail(s)))

\* C1: in fuse_scored, fuse_ranked and fuse_hybrid (and fuse_scored_lists)
\* the combination function is applied only to slices that are all the
\* contributions of the entries with one id, in input order (repeats kept,
\* nothing of another id), never to an empty slice; when the call returns it
\* has been applied to the slice of every input id, and the score of every
\* returned entry is the function's value on the slice of the entry's id.
C1_ScoreIsCombinationOfGroup ==
    op \in FuseOps =>
        /\ calls \subseteq {Contributions(k) : k \in InputIds}
        /\ <<>> \notin calls
        /\ ~panicked =>
              /\ calls = {Contributions(k) : k \in InputIds}
              /\ \A i \in 1..Len(flat) :
                    flat[i].score = ApplyFuser(Contributions(flat[i].id))

\* dA occurs twice with the same score around an entry of dB: CombSUM gives
\* dA twice its score and dB its own
C1_Witness ==
    /\ op = "fuse_scored" /\ fuser = "comb_sum" /\ ~panicked
    /\ results = <<[id |-> "dA", score |-> Fin(Unit)],
                   [id |-> "dB", score |-> Fin(-Unit)],
                   [id |-> "dA", score |-> Fin(Unit)]>>
    /\ flat = <<[id |-> "dA", score |-> Fin(2 * Unit)],
                [id |-> "dB", score |-> Fin(-Unit)]>>

\* C2: the list a fuse_* call returns holds every id of the input exactly
\* once and no other id, so it is as long as the input has distinct ids
\* (and empty for the empty input).
C2_EachInputIdExactlyOnce ==
    (op \in FuseOps /\ ~panicked) =>
        /\ {flat[i].id : i \in 1..Len(flat)} = InputIds
        /\ Len(flat) = Cardinality(InputIds)
        /\ (InputOf = <<>> => flat = <<>>)

\* three entries over two ids give two entries
C2_Witness ==
    /\ op = "fuse_ranked" /\ ~panicked
    /\ Len(results) = 3
    /\ InputIds = {"dA", "dB"}
    /\ Len(flat) = 2 /\ flat[1].id # flat[2].id

\* C3: the list a fuse_* call returns is non-increasing in score:
\* flat[i].score >= flat[j].score for all i < j.
C3_SortedDescending ==
    (op \in FuseOps /\ ~panicked) =>
        \A i, j \in 1..Len(flat) : i < j => RawGe(flat[i].score, flat[j].score)

\* the returned list is non-increasing whenever no returned score is NaN
SortedDescendingUnlessNaN ==
    (op \in FuseOps /\ ~panicked
       /\ \A i \in 1..Len(flat) : flat[i].score.kind # "nan") =>
        \A i, j \in 1..Len(flat) : i < j => RawGe(flat[i].score, flat[j].score)

\* C4: fuse_scored_lists(A, B, f) has exactly the outcomes of
\* fuse_scored(A followed by B, f), what it returned being one of them; and
\* fusing a list with itself under CombSUM gives each id the sum of its
\* scores taken twice.
C4_ListsIsFuseOfConcatenation ==
    op = "fuse_scored_lists" =>
        /\ fuse_scored_lists(results, results2, fuser)
              = fuse_scored(results \o results2, fuser)
        /\ [panic |-> panicked, vec |-> flat, calls |-> calls]
              \in fuse_scored(results \o results2, fuser)
        /\ (results = results2 /\ fuser = "comb_sum" /\ ~panicked) =>
              \A i \in 1..Len(flat) :
                  LET mine == SelectSeq(results, LAMBDA e : e.id = flat[i].id)
                      own == [n \in 1..Len(mine) |-> mine[n].score]
                  IN  flat[i].score = SumOf(own \o own)

\* a two-entry list fused with itself under CombSUM: dA gets 2 * (1.0 + 1.0)
C4_Witness ==
    /\ op = "fuse_scored_lists" /\ fuser = "comb_sum" /\ ~panicked
    /\ results = results2
    /\ results = <<[id |-> "dA", score |-> Fin(Unit), rank |-> 0],
                   [id |-> "dA", score |-> Fin(Unit), rank |-> 0]>>
    /\ flat = <<[id |-> "dA", score |-> Fin(4 * Unit)]>>

\* the combination functions the engine is claimed total for
BuiltinScoreFusers == {"comb_max", "comb_sum", "comb_mnz"}

\* C11: fuse_scored with comb_max, comb_sum or comb_mnz, given entries whose
\* scores are all non-NaN, returns instead of panicking, and no score of the
\* returned list is NaN.
C11_NeverFailsNeverNaN ==
    (/\ op = "fuse_scored" /\ fuser \in BuiltinScoreFusers
     /\ \A i \in 1..Len(results) : results[i].score.kind # "nan") =>
        /\ ~panicked
        /\ \A i \in 1..Len(flat) : flat[i].score.kind # "nan"

\* CombMAX alone keeps the claim: it only compares its scores
CombMaxNeverFailsNeverNaN ==
    (op = "fuse_scored" /\ fuser = "comb_max") =>
        /\ ~panicked
        /\ \A i \in 1..Len(flat) : flat[i].score.kind # "nan"

\* so do CombSUM and CombMNZ as long as no id carries both infinities
FiniteSumsNeverFailNeverNaN ==
    (/\ op = "fuse_scored" /\ fuser \in BuiltinScoreFusers
     /\ \A k \in InputIds :
           ~ \E i, j \in 1..Len(Contributions(k)) :
                 Contributions(k)[i] = Inf /\ Contributions(k)[j] = NegInf) =>
        /\ ~panicked
        /\ \A i \in 1..Len(flat) : flat[i].score.kind # "nan"


-----------------------------------------------------------------------------
(* Direct calls of the combination functions *)

\* the scores of the slices passed in: those of the unit tests (1.0, 40.0,
\* 0.5, 12.0), two negative ones and the infinities
CombScores == {NegInf, Fin(-6), Fin(-2), Fin(2), Fin(Unit), Fin(48), Fin(160), Inf}

CombReturned(x) ==
    /\ panicked' = (x.kind = "panic")
    /\ combined' = x

CombMax ==
    /\ op = "start"
    /\ \E s \in SeqsUpTo(CombScores, MaxScores) :
          scores' = s /\ CombReturned(comb_max(s))
    /\ op' = "comb_max"
    /\ UNCHANGED <<build, fuser_arg, files_data, exit, results, results2, fuser, calls, flat, file_data, rows, list, parsed>>

CombSum ==
    /\ op = "start"
    /\ \E s \in SeqsUpTo(CombScores, MaxScores) :
          scores' = s /\ CombReturned(comb_sum(s))
    /\ op' = "comb_sum"
    /\ UNCHANGED <<build, fuser_arg, files_data, exit, results, results2, fuser, calls, flat, file_data, rows, list, parsed>>

CombMnz ==
    /\ op = "start"
    /\ \E s \in SeqsUpTo(CombScores, MaxScores) :
          scores' = s /\ CombReturned(comb_mnz(s))
    /\ op' = "comb_mnz"
    /\ UNCHANGED <<build, fuser_arg, files_data, exit, results, results2, fuser, calls, flat, file_data, rows, list, parsed>>

Rrf ==
    /\ op = "start"
    /\ \E s \in SeqsUpTo(EntryRanks, MaxScores) :
          scores' = s /\ CombReturned(rrf(s))
    /\ op' = "rrf"
    /\ UNCHANGED <<build, fuser_arg, files_data, exit, results, results2, fuser, calls, flat, file_data, rows, list, parsed>>

NextComb == CombMax \/ CombSum \/ CombMnz \/ Rrf

SpecComb == Init /\ [][NextComb]_vars

-----------------------------------------------------------------------------
(* Properties of the combination functions *)

\* the slice with the elements at i and j exchanged
Swapped(s, i, j) ==
    [n \in 1..Len(s) |-> IF n = i THEN s[j] ELSE IF n = j THEN s[i] ELSE s[n]]

\* the scores of the unit tests of fuser.rs: 1.0, 40.0, 0.5, 12.0
TestScores == <<Fin(Unit), Fin(160), Fin(2), Fin(48)>>

\* n times x, for a whole number n
Times(n, x) ==
    CASE x.kind = "fin" -> Fin(n * x.v)
      [] x.kind = "inf" -> IF n = 0 THEN NaN ELSE x
      [] OTHER -> x

\* C5: comb_max returns an element of a non-empty slice that is >= every
\* element (the negative maximum when all are negative, never 0.0) and 0.0
\* for the empty slice; exchanging two elements of the slice does not change
\* the result; [1.0, 40.0, 0.5, 12.0] gives 40.0.
C5_CombMaxIsMaximum ==
    op = "comb_max" =>
        /\ ~panicked
        /\ (scores = <<>> => combined = Zero)
        /\ (scores # <<>> =>
              /\ \E i \in 1..Len(scores) : combined = scores[i]
              /\ \A i \in 1..Len(scores) : RawGe(combined, scores[i]))
        /\ \A i, j \in 1..Len(scores) : comb_max(Swapped(scores, i, j)) = combined
        /\ (scores = TestScores => combined = Fin(160))

\* all scores negative, the highest first: the result is that one, not 0.0
C5_Witness ==
    /\ op = "comb_max"
    /\ scores = <<Fin(-2), Fin(-6), Fin(-6)>>
    /\ combined = Fin(-2)

\* C6: comb_sum returns the sum of the slice (0.0 when empty) and comb_mnz
\* the number of elements times comb_sum of the slice (0.0 when empty, the
\* sum itself for one element); [1.0, 40.0, 0.5, 12.0] gives 53.5 and 214.0.
C6_CombSumAndCombMnz ==
    /\ (op = "comb_sum" /\ ~panicked) =>
          /\ combined = SumOf(scores)
          /\ (scores = <<>> => combined = Zero)
          /\ (scores = TestScores => combined = Fin(214))
    /\ (op = "comb_mnz" /\ ~panicked) =>
          /\ combined = Times(Len(scores), comb_sum(scores))
          /\ combined = Times(Len(scores), SumOf(scores))
          /\ (scores = <<>> => combined = Zero)
          /\ (Len(scores) = 1 => combined = comb_sum(scores))
          /\ (scores = TestScores => combined = Fin(856))

\* comb_mnz of the unit test's slice: 4 * 53.5 = 214.0
C6_Witness ==
    /\ op = "comb_mnz" /\ ~panicked
    /\ scores = TestScores
    /\ combined = Fin(856)


-----------------------------------------------------------------------------
(* Texts passed to parse_from_trec, and entries passed to write_all *)

QidToken == <<"q", "1">>
RunidToken == <<"r", "1">>

\* a well-formed line and one token too many
FullRow == <<QidToken, <<"0">>, <<"d", "A">>, <<"0">>, <<"0", ".", "5">>, RunidToken, <<"#">>>>

\* rank tokens: three that <u32 as FromStr> accepts, three that it rejects
RankTokens == {<<"1", "2">>, <<"+", "3">>, <<"x">>, <<"-", "1">>, <<"1", ".", "5">>}

\* score tokens: numbers, infinities, NaNs and two that are no number
ScoreTokens ==
    {<<"-", "1", ".", "2", "5">>, <<"4", "0">>, <<"1", "e", "1">>,
     <<"i", "n", "f">>, <<"-", "i", "n", "f">>,
     <<"N", "a", "N">>, <<"n", "a", "n">>,
     <<"a", "b", "c">>, <<".">>}

\* the lines a text is made of, each as its tokens: the well-formed line cut
\* after 0 to 7 tokens; the line with every rank token and every score token;
\* a line with another reserved token and document; and lines that both lack
\* fields and hold an unusual token, one of them with two unusual tokens
InputRows ==
    {SubSeq(FullRow, 1, n) : n \in 0..7}
    \cup {[SubSeq(FullRow, 1, 6) EXCEPT ![4] = t] : t \in RankTokens}
    \cup {[SubSeq(FullRow, 1, 6) EXCEPT ![5] = t] : t \in ScoreTokens}
    \cup {<<QidToken, <<"Q", "0">>, <<"d", "B">>, <<"1", "2">>, <<"4", "0">>, RunidToken>>}
    \cup {[SubSeq(FullRow, 1, 4) EXCEPT ![4] = <<"x">>]}
    \cup {[SubSeq(FullRow, 1, 6) EXCEPT ![4] = <<"x">>, ![5] = <<"a", "b", "c">>]}
    \cup {[SubSeq(FullRow, 1, 5) EXCEPT ![5] = t] :
            t \in {<<"a", "b", "c">>, <<"i", "n", "f">>, <<"N", "a", "N">>}}

\* how the tokens of a line are laid out: single spaces and a final "\n", or
\* blanks around the line, tabs between the tokens and "\r\n" between lines
Layouts == {"plain", "padded"}

RECURSIVE JoinTokens(_, _)
JoinTokens(row, sep) ==
    IF row = <<>> THEN <<>>
    ELSE IF Len(row) = 1 THEN row[1]
    ELSE row[1] \o sep \o JoinTokens(Tail(row), sep)

RECURSIVE LayOut(_, _)
\* the text of the given lines
LayOut(rs, layout) ==
    IF rs = <<>> THEN <<>>
    ELSE IF layout = "plain"
         THEN JoinTokens(rs[1], <<" ">>) \o <<"\n">> \o LayOut(Tail(rs), layout)
         ELSE <<" ">> \o JoinTokens(rs[1], <<"\t", " ">>) \o <<"\t">>
                \o (IF Len(rs) = 1 THEN <<>> ELSE <<"\r", "\n">>)
                \o LayOut(Tail(rs), layout)

\* qid values of the entries written: a token, the empty string, and a string
\* with a blank in it
WrittenQids == {QidToken, <<>>, <<"q", " ", "x">>}

\* the entries passed to write_all
WrittenEntries ==
    {[qid |-> q, docno |-> d[1], rank |-> d[2], score |-> x, runid |-> RunidToken] :
        q \in WrittenQids,
        d \in {<<<<"d", "A">>, 0>>, <<<<"d", "B">>, 12>>},
        x \in {Fin(-5), Fin(2), Fin(160), Inf}}

-----------------------------------------------------------------------------
(* The calls of the codec *)

ParseFromTrec ==
    /\ op = "start"
    /\ \E rs \in SeqsUpTo(InputRows, MaxLines), layout \in Layouts :
          /\ rows' = rs
          /\ file_data' = LayOut(rs, layout)
          /\ parsed' = parse_from_trec(LayOut(rs, layout))
    /\ op' = "parse_from_trec"
    /\ UNCHANGED <<build, fuser_arg, files_data, exit, results, results2, fuser, calls, flat, panicked,
                   scores, combined, list>>

\* write_all into a Vec<u8>, which cannot fail
WriteAll ==
    /\ op = "start"
    /\ \E es \in SeqsUpTo(WrittenEntries, MaxRecords) :
          /\ list' = es
          /\ file_data' = write_all(es)
    /\ op' = "write_all"
    /\ UNCHANGED <<build, fuser_arg, files_data, exit, results, results2, fuser, calls, flat, panicked,
                   scores, combined, rows, parsed>>

\* parse_from_trec on the text write_all produced
ParseWritten ==
    /\ op = "write_all"
    /\ parsed' = parse_from_trec(file_data)
    /\ op' = "parse_written"
    /\ UNCHANGED <<build, fuser_arg, files_data, exit, results, results2, fuser, calls, flat, panicked,
                   scores, combined, file_data, rows, list>>

NextTrec == ParseFromTrec \/ WriteAll \/ ParseWritten

SpecTrec == Init /\ [][NextTrec]_vars

-----------------------------------------------------------------------------
(* The merge command (src/src/main.rs) *)

\* <Fuser as FromStr>::from_str, which parses the value of -f
from_str(s) ==
    CASE s \in {"combMAX", "combmax", "max"} -> [ok |-> TRUE, value |-> "CombMax"]
      [] s \in {"combSUM", "combsum", "sum"} -> [ok |-> TRUE, value |-> "CombMax"]
      [] s \in {"combMNZ", "combmnz", "mnz"} -> [ok |-> TRUE, value |-> "CombMax"]
      [] OTHER -> [ok |-> FALSE, value |-> "Unknown fusion algorithm"]

\* match fuser { ... }: the combination function main passes to fuse_scored
FuserFunction(variant) ==
    CASE variant = "CombMax" -> "comb_max"
      [] variant = "CombSum" -> "comb_sum"
      [] variant = "CombMnz" -> "comb_mnz"

\* SearchEntry for TrecEntry: the id is the docno
TrecSearchEntry(e) ==
    [id |-> e.docno, score |-> e.score]

\* a file of the command line: its content, or no readable file at the path
FileOf(text) == [found |-> TRUE, data |-> text]
NoFile == [found |-> FALSE, data |-> <<>>]

RECURSIVE ParseFiles(_, _, _)
\* files_data.iter().map(parse_from_trec).collect::<Result<Vec<_>, _>>()
\* followed by flatten: the entries of the files in argument order, or the
\* error of the first file that does not parse
ParseFiles(fs, i, acc) ==
    IF i > Len(fs) THEN Ok(acc)
    ELSE LET r == parse_from_trec(fs[i].data)
         IN  IF r.ok THEN ParseFiles(fs, i + 1, acc \o r.entries) ELSE r

\* the fused list as TrecEntry values: rank is the position from 0
OutputEntries(vec, qid, runid) ==
    [i \in 1..Len(vec) |->
        [qid |-> qid, docno |-> vec[i].id, rank |-> i - 1,
         score |-> vec[i].score, runid |-> runid]]

\* the default values of --qid and --runid
DefaultQid == <<"f", "u", "s", "i", "o", "n">>
DefaultRunid == <<"v", "i", "n", "d", "i", "c", "a", "t", "e", "d">>

\* the values given with -f: the nine names of the three algorithms, a name
\* in another case and the name of a function the command does not offer
FuserArgs ==
    {"combMAX", "combmax", "max", "combSUM", "combsum", "sum",
     "combMNZ", "combmnz", "mnz", "COMBSUM", "rrf"}

\* the lines of the input files: document dA with the scores 1.0, 40.0, 0.5
\* and 12.0, document dB, and a line whose rank is no number
MergeRow(docno, sc) ==
    [SubSeq(FullRow, 1, 6) EXCEPT ![3] = docno, ![5] = sc]

MergeFiles ==
    {FileOf(LayOut(<<MergeRow(<<"d", "A">>, <<"1">>),
                     MergeRow(<<"d", "B">>, <<"1", "2">>)>>, "plain")),
     FileOf(LayOut(<<MergeRow(<<"d", "A">>, <<"4", "0">>)>>, "plain")),
     FileOf(LayOut(<<MergeRow(<<"d", "A">>, <<"0", ".", "5">>),
                     MergeRow(<<"d", "A">>, <<"1", "2">>)>>, "padded")),
     FileOf(LayOut(<<[SubSeq(FullRow, 1, 6) EXCEPT ![4] = <<"x">>]>>, "plain")),
     NoFile}

\* vindicator merge -f <fuser_arg> <files>, output on stdout: the argument
\* parser rejects an unknown name before anything is read; then all files are
\* read, then all are parsed, and the first failure ends the process with
\* its error; the entries are fused with the function of the parsed variant
\* and the fused list is written
Merge ==
    /\ op = "start"
    /\ \E a \in FuserArgs, fs \in SeqsUpTo(MergeFiles, MaxFiles) :
          /\ fuser_arg' = a
          /\ IF ~from_str(a).ok
             THEN /\ exit' = "usage error"
                  /\ UNCHANGED <<files_data, results, fuser, calls, flat,
                                 panicked, list, file_data>>
             ELSE IF \E i \in 1..Len(fs) : ~fs[i].found
             THEN /\ exit' = "io error"
                  /\ files_data' = fs
                  /\ UNCHANGED <<results, fuser, calls, flat, panicked,
                                 list, file_data>>
             ELSE \E entries \in {ParseFiles(fs, 1, <<>>)} :
                  IF ~entries.ok
                  THEN /\ exit' = "parse error"
                       /\ files_data' = fs
                       /\ UNCHANGED <<results, fuser, calls, flat, panicked,
                                      list, file_data>>
                  ELSE \E input \in {[i \in 1..Len(entries.entries) |->
                                         TrecSearchEntry(entries.entries[i])]},
                          f \in {FuserFunction(from_str(a).value)} :
                       /\ files_data' = fs
                       /\ results' = input
                       /\ fuser' = f
                       /\ \E out \in fuse_scored(input, f) :
                             /\ Returned(out)
                             /\ \E written \in {OutputEntries(out.vec, DefaultQid, DefaultRunid)} :
                                   /\ list' = written
                                   /\ file_data' = write_all(written)
                             /\ exit' = IF out.panic THEN "panic" ELSE "ok"
    /\ op' = "merge"
    /\ UNCHANGED <<build, results2, scores, combined, rows, parsed>>

NextMerge == Merge

SpecMerge == Init /\ [][NextMerge]_vars

Next == NextFuse \/ NextComb \/ NextTrec \/ NextMerge

Spec == Init /\ [][Next]_vars


-----------------------------------------------------------------------------
(* Properties of the codec *)

\* what the rank tokens accepted as a rank denote
RankDenotations ==
    {<<<<"0">>, 0>>, <<<<"1", "2">>, 12>>, <<<<"+", "3">>, 3>>}

\* what the score tokens that are finite numbers denote, in quarters
FiniteDenotations ==
    {<<<<"0", ".", "5">>, Fin(2)>>, <<<<"-", "1", ".", "2", "5">>, Fin(-5)>>,
     <<<<"4", "0">>, Fin(160)>>, <<<<"1", "e", "1">>, Fin(40)>>}

\* the score tokens that denote an infinity
InfiniteDenotations ==
    {<<<<"i", "n", "f">>, Inf>>, <<<<"-", "i", "n", "f">>, NegInf>>}

\* the score tokens that spell NaN, and those that are no number at all
NaNTokens == {<<"N", "a", "N">>, <<"n", "a", "n">>}
NotNumberTokens == {<<"a", "b", "c">>, <<".">>}

Denotes(table, t) == \E d \in table : d[1] = t
Denotation(table, t) == (CHOOSE d \in table : d[1] = t)[2]

\* a well-formed record line: six tokens, the fourth a rank and the fifth a
\* finite number
WellFormedRow(row) ==
    /\ Len(row) = 6
    /\ Denotes(RankDenotations, row[4])
    /\ Denotes(FiniteDenotations, row[5])

\* the fields of a record in the order of the line
FieldOrder == <<"qid", "reserved", "docno", "rank", "score", "runid">>

\* C7: when every line of the text is a well-formed record, parse_from_trec
\* returns Ok with one entry per line in the order of the lines, the i-th
\* holding the 1st, 3rd, 4th, 5th and 6th token of the i-th line as qid,
\* docno, rank, score and runid, whatever the 2nd token is; the empty text
\* gives the empty list.
C7_WellFormedTextParses ==
    (op = "parse_from_trec" /\ \A i \in 1..Len(rows) : WellFormedRow(rows[i])) =>
        /\ parsed.ok
        /\ Len(parsed.entries) = Len(rows)
        /\ \A i \in 1..Len(rows) :
              parsed.entries[i] =
                  [qid |-> rows[i][1], docno |-> rows[i][3],
                   rank |-> Denotation(RankDenotations, rows[i][4]),
                   score |-> Denotation(FiniteDenotations, rows[i][5]),
                   runid |-> rows[i][6]]
        /\ (file_data = <<>> => parsed.entries = <<>>)

\* two well-formed lines with different reserved tokens, documents, ranks and
\* scores: two entries, in the order of the lines
C7_Witness ==
    /\ op = "parse_from_trec" /\ parsed.ok
    /\ Len(rows) = 2 /\ Len(rows[1]) = 6 /\ Len(rows[2]) = 6
    /\ rows[1][2] = <<"Q", "0">> /\ rows[2][2] = <<"0">>
    /\ parsed.entries[1].docno = <<"d", "B">> /\ parsed.entries[1].rank = 12
    /\ parsed.entries[1].score = Fin(160)
    /\ parsed.entries[2].docno = <<"d", "A">> /\ parsed.entries[2].rank = 0
    /\ parsed.entries[2].score = Fin(2)

\* a string that reads back as one token: not empty, no whitespace in it
IsToken(t) ==
    t # <<>> /\ \A i \in 1..Len(t) : t[i] \notin {" ", "\t", "\r", "\n"}

\* a valid record: qid, docno and runid are tokens and the score is a Score
ValidEntry(e) ==
    IsToken(e.qid) /\ IsToken(e.docno) /\ IsToken(e.runid) /\ e.score.kind \in {"fin", "inf"}

\* C8: parsing the text write_all produced from valid records returns Ok
\* with as many entries as were written, the i-th equal to the i-th written
\* one in qid, docno, rank, score and runid.
C8_WriteThenParseRoundTrip ==
    (op = "parse_written" /\ \A i \in 1..Len(list) : ValidEntry(list[i])) =>
        /\ parsed.ok
        /\ Len(parsed.entries) = Len(list)
        /\ \A i \in 1..Len(list) : parsed.entries[i] = list[i]

\* two different valid records, one with a negative fractional score and one
\* with a two-digit rank, written and read back
C8_Witness ==
    /\ op = "parse_written" /\ parsed.ok
    /\ Len(list) = 2
    /\ list[1].score = Fin(-5) /\ list[2].rank = 12 /\ list[2].score = Fin(160)
    /\ parsed.entries = list

\* the lines before the i-th are all well-formed
FirstFaulty(i) == \A j \in 1..(i - 1) : WellFormedRow(rows[j])

\* the rank and score tokens a short line does hold are valid
PresentTokensValid(row) ==
    /\ (Len(row) >= 4 => Denotes(RankDenotations, row[4]))
    /\ (Len(row) >= 5 => Denotes(FiniteDenotations, row[5]))

\* C9: when the first line that is not well-formed has fewer than six tokens,
\* all of them valid, parse_from_trec returns ParseError::Eol naming the first
\* field the line lacks, in the order qid, reserved, docno, rank, score, runid.
C9_MissingFieldIsNamed ==
    op = "parse_from_trec" =>
        \A i \in 1..Len(rows) :
            (FirstFaulty(i) /\ Len(rows[i]) < 6 /\ PresentTokensValid(rows[i])) =>
                parsed = Err(Eol(FieldOrder[Len(rows[i]) + 1]))

\* a well-formed line, then a line of five tokens: the runid is missing
C9_Witness ==
    /\ op = "parse_from_trec"
    /\ Len(rows) = 2 /\ WellFormedRow(rows[1]) /\ Len(rows[2]) = 5
    /\ parsed = Err(Eol("runid"))

\* the first line that is not well-formed is the i-th, and it holds a valid
\* rank and a score token
ReachesScore(i) ==
    /\ FirstFaulty(i)
    /\ Len(rows[i]) >= 5
    /\ Denotes(RankDenotations, rows[i][4])

\* C10 as claimed: a record whose score token is no number, spells NaN or is
\* not finite makes parse_from_trec fail with InvalidScore carrying the token.
C10_NonFiniteScoreRejected ==
    op = "parse_from_trec" =>
        \A i \in 1..Len(rows) :
            (/\ ReachesScore(i) /\ Len(rows[i]) = 6
             /\ \/ rows[i][5] \in NotNumberTokens \cup NaNTokens
                \/ Denotes(InfiniteDenotations, rows[i][5])) =>
                parsed = Err(InvalidScore(rows[i][5]))

\* C10 as amended: a score token that is no number or spells NaN makes
\* parse_from_trec fail with InvalidScore carrying the token; a token that
\* denotes an infinity is accepted (the text parses when its other lines are
\* well-formed), and the entry's score is that infinity.
C10_NaNOrNonNumberScoreRejected ==
    op = "parse_from_trec" =>
        \A i \in 1..Len(rows) :
            /\ (ReachesScore(i) /\ rows[i][5] \in NotNumberTokens \cup NaNTokens) =>
                  parsed = Err(InvalidScore(rows[i][5]))
            /\ (/\ \A j \in 1..Len(rows) : j # i => WellFormedRow(rows[j])
                /\ Len(rows[i]) = 6
                /\ Denotes(RankDenotations, rows[i][4])
                /\ Denotes(InfiniteDenotations, rows[i][5])) =>
                  /\ parsed.ok
                  /\ parsed.entries[i].score
                        = Denotation(InfiniteDenotations, rows[i][5])

\* a well-formed line, then a line whose score token is "NaN"
C10_Witness ==
    /\ op = "parse_from_trec"
    /\ Len(rows) = 2 /\ WellFormedRow(rows[1])
    /\ Len(rows[2]) = 6 /\ rows[2][5] = <<"N", "a", "N">>
    /\ parsed = Err(InvalidScore(<<"N", "a", "N">>))


\* the n-th field of a line is at fault: its token is missing, or it is the
\* rank and denotes no rank, or it is the score and denotes no score
FieldAtFault(row, n) ==
    \/ Len(row) < n
    \/ n = 4 /\ ~Denotes(RankDenotations, row[4])
    \/ n = 5 /\ ~Denotes(FiniteDenotations \cup InfiniteDenotations, row[5])

\* a malformed line: one of its six fields is at fault
Malformed(row) == \E n \in 1..6 : FieldAtFault(row, n)

\* the error of a malformed line: that of its leftmost field at fault
ErrorOf(row) ==
    LET n == CHOOSE k \in 1..6 :
                 FieldAtFault(row, k) /\ \A m \in 1..(k - 1) : ~FieldAtFault(row, m)
    IN  IF Len(row) < n THEN Eol(FieldOrder[n])
        ELSE IF n = 4 THEN InvalidRank(row[4])
        ELSE InvalidScore(row[5])

\* C12: when a line of the text is malformed, parse_from_trec returns an
\* error and no entry, whatever well-formed lines stand before or after it,
\* and the error is that of the first malformed line, for the leftmost field
\* of that line that is at fault.
C12_FirstErrorAbortsParsing ==
    op = "parse_from_trec" =>
        \A i \in 1..Len(rows) :
            (Malformed(rows[i]) /\ \A j \in 1..(i - 1) : ~Malformed(rows[j])) =>
                /\ ~parsed.ok
                /\ parsed.entries = <<>>
                /\ parsed.err = ErrorOf(rows[i])

\* a line whose rank and score tokens are both invalid, then a line that
\* lacks its runid: the error is the rank's of the first line
C12_Witness ==
    /\ op = "parse_from_trec"
    /\ Len(rows) = 2
    /\ Len(rows[1]) = 6 /\ rows[1][4] = <<"x">> /\ rows[1][5] = <<"a", "b", "c">>
    /\ Len(rows[2]) = 5 /\ ~FieldAtFault(rows[2], 4) /\ ~FieldAtFault(rows[2], 5)
    /\ ~parsed.ok /\ parsed.entries = <<>>
    /\ parsed.err = InvalidRank(<<"x">>)

\* a well-formed line, then a malformed one: the entry of the first line is
\* not returned
C12_WellFormedLineDropped ==
    /\ op = "parse_from_trec"
    /\ Len(rows) = 2 /\ WellFormedRow(rows[1]) /\ Malformed(rows[2])
    /\ ~parsed.ok /\ parsed.entries = <<>>


-----------------------------------------------------------------------------
(* Properties of the merge command *)

\* the algorithm each name of the command line stands for
NamedFunction ==
    [n \in {"combMAX", "combmax", "max"} |-> "comb_max"]
        @@ [n \in {"combSUM", "combsum", "sum"} |-> "comb_sum"]
        @@ [n \in {"combMNZ", "combmnz", "mnz"} |-> "comb_mnz"]

\* the score the given function gives the i-th written entry's document
WrittenScoreIs(f, i) ==
    list[i].score = ApplyScoreFuser(f, Contributions(list[i].docno))

\* C13: merge -f <name> with one of the nine algorithm names is accepted,
\* and the score of every entry it writes is the value of the function of
\* that name (comb_max for combMAX, combmax, max; comb_sum for combSUM,
\* combsum, sum; comb_mnz for combMNZ, combmnz, mnz) on the scores the input
\* files give the entry's document; any other name ends the command with an
\* error before anything is written.
C13_NameSelectsNamedFunction ==
    op = "merge" =>
        /\ fuser_arg \in DOMAIN NamedFunction =>
              /\ exit # "usage error"
              /\ exit = "ok" =>
                    \A i \in 1..Len(list) :
                        WrittenScoreIs(NamedFunction[fuser_arg], i)
        /\ fuser_arg \notin DOMAIN NamedFunction =>
              exit = "usage error" /\ file_data = <<>>

\* the names of CombMAX do select comb_max
MaxNamesSelectCombMax ==
    (op = "merge" /\ exit = "ok" /\ fuser_arg \in {"combMAX", "combmax", "max"}) =>
        /\ fuser = "comb_max"
        /\ \A i \in 1..Len(list) : WrittenScoreIs("comb_max", i)

\* and so does every other accepted name
EveryNameSelectsCombMax ==
    (op = "merge" /\ exit = "ok") =>
        /\ fuser = "comb_max"
        /\ \A i \in 1..Len(list) : WrittenScoreIs("comb_max", i)

\* a name that is none of the nine is rejected and nothing is read or written
UnknownNameRejected ==
    (op = "merge" /\ fuser_arg \notin DOMAIN NamedFunction) =>
        exit = "usage error" /\ files_data = <<>> /\ file_data = <<>>

\* merge -f combSUM over dA 1.0, dA 40.0, dA 0.5 and dA 12.0 writes 40
\* for dA where CombSUM gives 53.5
SumNameWritesMaximum ==
    /\ op = "merge" /\ exit = "ok" /\ fuser_arg = "combSUM"
    /\ Contributions(<<"d", "A">>) = <<Fin(Unit), Fin(160), Fin(2), Fin(48)>>
    /\ \E i \in 1..Len(list) :
          /\ list[i].docno = <<"d", "A">>
          /\ list[i].score = Fin(160)
          /\ comb_sum(Contributions(<<"d", "A">>)) = Fin(214)

=============================================================================
